---- MODULE Spec2Model ----
(***************************************************************************)
(* Model of sqlx-macros-core/src/query/args.rs (quote_args and the code it *)
(* generates) and of sqlx-core/src/describe.rs (Describe::try_into_any).   *)
(*                                                                         *)
(* Option<T> is modelled as a sequence of length 0 (None) or 1 (Some).     *)
(* Positions are 0-based as in the source; sequences are 1-based, so the   *)
(* element at source position i is seq[i + 1].                             *)
(***************************************************************************)
EXTENDS Integers, Sequences, FiniteSets, TLC

\* ------------------------------------------------------------------ bounds
MaxParams == 2
MaxArgs == 2
MaxCols == 2

\* ------------------------------------------------------- the type universe
\* DB::TypeInfo values a driver may report.  `native` is what
\* DB::param_type_for_id answers for it, `any` what AnyTypeInfo::try_from
\* answers (empty = no mapping).
TypeInfos ==
  { [name |-> "int4",         native |-> <<"i32">>,    any |-> <<"Integer">>],
    [name |-> "text",         native |-> <<"String">>, any |-> <<"Text">>],
    [name |-> "status",       native |-> <<>>,         any |-> <<>>],
    [name |-> "order-status", native |-> <<>>,         any |-> <<>>],
    [name |-> "geo",          native |-> <<"Vec<(">>,  any |-> <<>>] }

EnumNames == {"status", "order-status"}
VariantLists == { <<"active", "inactive">>, <<"red", "green", "blue">> }

\* HashMap<String, Arc<[String]>>: a function from its key set to variants
Registries == UNION { [S -> VariantLists] : S \in SUBSET EnumNames }

\* caller-supplied argument expressions: source type, payload, the size
\* estimate Encode::size_hint reports and whether Arguments::add accepts it
Values ==
  { [src |-> "i32",    lit |-> "42",      hint |-> 4, enc |-> TRUE],
    [src |-> "&str",   lit |-> "active",  hint |-> 6, enc |-> TRUE],
    [src |-> "String", lit |-> "pending", hint |-> 7, enc |-> TRUE],
    [src |-> "&str",   lit |-> "bad",     hint |-> 3, enc |-> FALSE],
    [src |-> "i32",    lit |-> "43",      hint |-> 4, enc |-> FALSE] }

SeqsUpTo(S, n) == UNION { [1..k -> S] : k \in 0..n }

Min(a, b) == IF a <= b THEN a ELSE b

\* Option<Either<Vec<TypeInfo>, usize>>
ParameterInfos ==
  { [tag |-> "Absent", types |-> <<>>, count |-> 0] }
  \cup { [tag |-> "CountOnly", types |-> <<>>, count |-> k] : k \in 0..MaxParams }
  \cup { [tag |-> "Typed", types |-> ts, count |-> 0] : ts \in SeqsUpTo(TypeInfos, MaxParams) }

NullableOpts == { <<>>, <<TRUE>>, <<FALSE>> }

VARIABLES
  info,        \* the Describe<DB> value
  arg_exprs,   \* input.arg_exprs
  pc,          \* position inside quote_args / the generated code
  params,      \* resolved target types (local `params`)
  gen,         \* what quote_args itself returned
  tokens,      \* the generated code
  args,        \* arg0, arg1, ... bound so far by the generated code
  reserved,    \* log of query_args.reserve calls
  query_args,  \* the argument buffer of the generated code
  attempted,   \* number of query_args.add calls made
  result,      \* value of `query_args` at the end of the generated code
  npc,         \* position inside try_into_any
  columns,     \* local `columns` of try_into_any
  parameters,  \* local `parameters` of try_into_any
  nresult      \* outcome of try_into_any

vars == <<info, arg_exprs, pc, params, gen, tokens, args, reserved,
          query_args, attempted, result, npc, columns, parameters, nresult>>

bindVars == <<pc, params, gen, tokens, args, reserved, query_args, attempted, result>>
normVars == <<npc, columns, parameters, nresult>>

\* ------------------------------------------------------------ outcomes
NoOutcome == [kind |-> "None", err |-> <<>>, val |-> <<>>]
Ok(v)     == [kind |-> "Ok", err |-> <<>>, val |-> <<v>>]
Err(e)    == [kind |-> "Err", err |-> <<e>>, val |-> <<>>]
Panic(m)  == [kind |-> "Panic", err |-> <<m>>, val |-> <<>>]
\* the generated code is rejected by the compiler
CompileError(m) == [kind |-> "CompileError", err |-> <<m>>, val |-> <<>>]

\* an error message: the format string and what it interpolates
Message(fmt, ty, pos) == [fmt |-> fmt, ty |-> ty, pos |-> pos]

NoTokens == [bindings |-> <<>>, names |-> 0, args_count |-> 0, empty |-> FALSE]
NoBuffer == [live |-> FALSE, items |-> <<>>]

\* ============================================================ quote_args

\* Describe::parameters() matched against Some(Either::Left(params))
IsTyped(d) == d.parameters.tag = "Typed"

\* DB::param_type_for_id(param)
param_type_for_id(param) == param.native

\* rt.parse::<TokenStream>(): the lexer rejects unbalanced delimiters
ParsesAsTokenStream(rt) == rt # "Vec<("

\* proc_macro2::Ident::new accepts only identifiers
IsIdent(name) == name # "order-status"

\* ephemeral_enum_ty(name, args): format_ident! panics on a string that is
\* not an identifier; otherwise the answer is ::std::string::String whatever
\* args holds
ephemeral_enum_ty(name, et) ==
  IF ~IsIdent(name)
    THEN Panic(Message("{} is not a valid identifier", <<name>>, <<>>))
    ELSE Ok("String")

\* the closure of params.iter().map(..) for one parameter
ResolveParam(d, param) ==
  LET maybe_real_type == param_type_for_id(param)
      known == param.name \in DOMAIN d.known_enum_tys
  IN  IF maybe_real_type # <<>>
        THEN IF ParsesAsTokenStream(maybe_real_type[1])
               THEN Ok(maybe_real_type[1])
               ELSE Err(Message("failed to parse parameter type {param}: {err}",
                                <<param.name>>, <<>>))
        ELSE IF known
               THEN ephemeral_enum_ty(param.name, d.known_enum_tys[param.name])
               ELSE Err(Message("parameter type {param} is not supported",
                                <<param.name>>, <<>>))

\* collect stops at the first element that is an Err (or panics): the lowest
\* of the stopping indices, 0 when there is none
FirstStop(stops) ==
  IF stops = {} THEN 0 ELSE CHOOSE i \in stops : \A j \in stops : i <= j

\* variant of CollectParams that reports the last failure instead of the first
CollectParams_LastStop(d) ==
  LET ts == d.parameters.types
      bad == { i \in 1..Len(ts) : ResolveParam(d, ts[i]).kind # "Ok" }
  IN  IF bad = {}
        THEN Ok([i \in 1..Len(ts) |-> ResolveParam(d, ts[i]).val[1]])
        ELSE ResolveParam(d, ts[CHOOSE i \in bad : \A j \in bad : j <= i])

\* .collect::<crate::Result<Vec<_>>>()? over the mapped parameters
CollectParams(d) ==
  LET ts == d.parameters.types
      f == FirstStop({ i \in 1..Len(ts) : ResolveParam(d, ts[i]).kind # "Ok" })
  IN  IF f = 0
        THEN Ok([i \in 1..Len(ts) |-> ResolveParam(d, ts[i]).val[1]])
        ELSE ResolveParam(d, ts[f])

\* variant of EmitTokens that converts every value to the first parameter type
EmitTokens_FirstParam(exprs, ps) ==
  [bindings   |-> [i \in 1..Min(Len(exprs), Len(ps)) |->
                     [expr |-> exprs[i], param |-> ps[1]]],
   names      |-> Len(exprs),
   args_count |-> Len(exprs),
   empty      |-> FALSE]

\* arg_bindings: arg_exprs zipped with params (zip stops at the shorter);
\* arg_names and args_count come from arg_exprs alone
EmitTokens(exprs, ps) ==
  [bindings   |-> [i \in 1..Min(Len(exprs), Len(ps)) |->
                     [expr |-> exprs[i], param |-> ps[i]]],
   names      |-> Len(exprs),
   args_count |-> Len(exprs),
   empty      |-> FALSE]

\* <_ as Into<#param>>::into(#expr) exists: From<T> for T, From<&str> for String
IntoExists(src, param) == src = param \/ (src = "&str" /\ param = "String")

\* the value Into::into yields: the payload carried at the target type
Into(expr, param) == [ty |-> param, lit |-> expr.lit, hint |-> expr.hint, enc |-> expr.enc]

RECURSIVE SumHints(_)
SumHints(as) == IF as = <<>> THEN 0 ELSE as[1].hint + SumHints(Tail(as))

\* variant of ReserveCall that leaves the size estimates out
ReserveCall_NoHints(toks, as) == [count |-> toks.args_count, bytes |-> 0]

\* query_args.reserve(#args_count, 0 + size_hint(arg0) + ...)
ReserveCall(toks, as) == [count |-> toks.args_count, bytes |-> SumHints(as)]

\* the error Arguments::add reports for a value it cannot encode
AddError(a) == Message("encode", <<a.lit>>, <<>>)

\* ---- actions of quote_args

\* variant of QuoteArgsEmpty that compares the counts before returning
QuoteArgsEmpty_ArityChecked ==
  /\ pc = "start"
  /\ arg_exprs = <<>>
  /\ IF IsTyped(info) /\ info.parameters.types # <<>>
       THEN /\ gen' = Err(Message("ArgumentCountMismatch", <<>>, <<>>))
            /\ pc' = "done"
            /\ UNCHANGED tokens
       ELSE /\ gen' = Ok("tokens")
            /\ tokens' = [NoTokens EXCEPT !.empty = TRUE]
            /\ pc' = "run_empty"
  /\ UNCHANGED <<info, arg_exprs, params, args, reserved, query_args, attempted, result>>
  /\ UNCHANGED normVars

\* if input.arg_exprs.is_empty() { return Ok(default) }
QuoteArgsEmpty ==
  /\ pc = "start"
  /\ arg_exprs = <<>>
  /\ gen' = Ok("tokens")
  /\ tokens' = [NoTokens EXCEPT !.empty = TRUE]
  /\ pc' = "run_empty"
  /\ UNCHANGED <<info, arg_exprs, params, args, reserved, query_args, attempted, result>>
  /\ UNCHANGED normVars

\* variant of Unimplemented that returns an error instead of panicking
Unimplemented_ReturnsErr ==
  /\ pc = "start"
  /\ arg_exprs # <<>>
  /\ ~IsTyped(info)
  /\ gen' = Err(Message("UnsupportedParameterMode", <<>>, <<>>))
  /\ pc' = "done"
  /\ UNCHANGED <<info, arg_exprs, params, tokens, args, reserved, query_args, attempted, result>>
  /\ UNCHANGED normVars

\* let Some(Either::Left(params)) = info.parameters() else { unimplemented!() }
Unimplemented ==
  /\ pc = "start"
  /\ arg_exprs # <<>>
  /\ ~IsTyped(info)
  /\ gen' = Panic(Message("only normal parameter inputs are supported safely", <<>>, <<>>))
  /\ pc' = "done"
  /\ UNCHANGED <<info, arg_exprs, params, tokens, args, reserved, query_args, attempted, result>>
  /\ UNCHANGED normVars

TypedParameters ==
  /\ pc = "start"
  /\ arg_exprs # <<>>
  /\ IsTyped(info)
  /\ pc' = "resolve"
  /\ UNCHANGED <<info, arg_exprs, params, gen, tokens, args, reserved, query_args, attempted, result>>
  /\ UNCHANGED normVars

ResolveOk ==
  /\ pc = "resolve"
  /\ CollectParams(info).kind = "Ok"
  /\ params' = CollectParams(info).val[1]
  /\ pc' = "emit"
  /\ UNCHANGED <<info, arg_exprs, gen, tokens, args, reserved, query_args, attempted, result>>
  /\ UNCHANGED normVars

ResolveFail ==
  /\ pc = "resolve"
  /\ CollectParams(info).kind # "Ok"
  /\ gen' = CollectParams(info)
  /\ pc' = "done"
  /\ UNCHANGED <<info, arg_exprs, params, tokens, args, reserved, query_args, attempted, result>>
  /\ UNCHANGED normVars

\* Ok(quote! { #arg_bindings #args_check ... })
Emit ==
  /\ pc = "emit"
  /\ tokens' = EmitTokens(arg_exprs, params)
  /\ gen' = Ok("tokens")
  /\ pc' = "compile"
  /\ UNCHANGED <<info, arg_exprs, params, args, reserved, query_args, attempted, result>>
  /\ UNCHANGED normVars

\* ---- the generated code

\* let query_args = Ok(Arguments::default());
RunEmpty ==
  /\ pc = "run_empty"
  /\ query_args' = [live |-> TRUE, items |-> <<>>]
  /\ result' = Ok(<<>>)
  /\ pc' = "done"
  /\ UNCHANGED <<info, arg_exprs, params, gen, tokens, args, reserved, attempted>>
  /\ UNCHANGED normVars

UnresolvedNames(toks) == toks.names > Len(toks.bindings)
TypeMismatch(toks) ==
  \E i \in 1..Len(toks.bindings) :
     ~IntoExists(toks.bindings[i].expr.src, toks.bindings[i].param)

\* an #arg_name without a `let`, or an expression without the Into impl
CompileFail ==
  /\ pc = "compile"
  /\ UnresolvedNames(tokens) \/ TypeMismatch(tokens)
  /\ result' = CompileError(IF UnresolvedNames(tokens) THEN "unresolved name"
                                                         ELSE "mismatched types")
  /\ pc' = "done"
  /\ UNCHANGED <<info, arg_exprs, params, gen, tokens, args, reserved, query_args, attempted>>
  /\ UNCHANGED normVars

CompileOk ==
  /\ pc = "compile"
  /\ ~UnresolvedNames(tokens)
  /\ ~TypeMismatch(tokens)
  /\ pc' = "bind"
  /\ UNCHANGED <<info, arg_exprs, params, gen, tokens, args, reserved, query_args, attempted, result>>
  /\ UNCHANGED normVars

\* let #arg_name = &(<_ as Into<#param>>::into(#expr));
BindArg ==
  /\ pc = "bind"
  /\ Len(args) < Len(tokens.bindings)
  /\ LET b == tokens.bindings[Len(args) + 1]
     IN  args' = Append(args, Into(b.expr, b.param))
  /\ UNCHANGED <<info, arg_exprs, pc, params, gen, tokens, reserved, query_args, attempted, result>>
  /\ UNCHANGED normVars

\* let mut query_args = default(); query_args.reserve(..);
Reserve ==
  /\ pc = "bind"
  /\ Len(args) = Len(tokens.bindings)
  /\ query_args' = [live |-> TRUE, items |-> <<>>]
  /\ reserved' = Append(reserved, ReserveCall(tokens, args))
  /\ pc' = "add"
  /\ UNCHANGED <<info, arg_exprs, params, gen, tokens, args, attempted, result>>
  /\ UNCHANGED normVars

\* .and_then(move |mut query_args| query_args.add(#arg_name).map(move |()| query_args))
AddArg ==
  /\ pc = "add"
  /\ attempted < tokens.names
  /\ args[attempted + 1].enc
  /\ attempted' = attempted + 1
  /\ query_args' = [query_args EXCEPT !.items = Append(@, args[attempted + 1])]
  /\ UNCHANGED <<info, arg_exprs, pc, params, gen, tokens, args, reserved, result>>
  /\ UNCHANGED normVars

\* variant of AddFail that records the error and goes on to the next value
AddFail_Continue ==
  /\ pc = "add"
  /\ attempted < tokens.names
  /\ ~args[attempted + 1].enc
  /\ attempted' = attempted + 1
  /\ result' = Err(AddError(args[attempted + 1]))
  /\ UNCHANGED <<info, arg_exprs, pc, params, gen, tokens, args, reserved, query_args>>
  /\ UNCHANGED normVars

\* add fails: the closure drops the buffer, the later and_then links are skipped
AddFail ==
  /\ pc = "add"
  /\ attempted < tokens.names
  /\ ~args[attempted + 1].enc
  /\ attempted' = attempted + 1
  /\ query_args' = NoBuffer
  /\ result' = Err(AddError(args[attempted + 1]))
  /\ pc' = "done"
  /\ UNCHANGED <<info, arg_exprs, params, gen, tokens, args, reserved>>
  /\ UNCHANGED normVars

AddDone ==
  /\ pc = "add"
  /\ attempted = tokens.names
  /\ result' = Ok(query_args.items)
  /\ pc' = "done"
  /\ UNCHANGED <<info, arg_exprs, params, gen, tokens, args, reserved, query_args, attempted>>
  /\ UNCHANGED normVars

BindIdle ==
  /\ pc = "idle" /\ params = <<>> /\ gen = NoOutcome /\ tokens = NoTokens
  /\ args = <<>> /\ reserved = <<>> /\ query_args = NoBuffer
  /\ attempted = 0 /\ result = NoOutcome

NormIdle ==
  /\ npc = "idle" /\ columns = <<>> /\ parameters = <<>> /\ nresult = NoOutcome

Init ==
  /\ info \in [columns : {<<>>}, parameters : ParameterInfos,
               nullable : {<<>>}, known_enum_tys : Registries]
  /\ arg_exprs \in SeqsUpTo(Values, MaxArgs)
  /\ pc = "start" /\ params = <<>> /\ gen = NoOutcome /\ tokens = NoTokens
  /\ args = <<>> /\ reserved = <<>> /\ query_args = NoBuffer
  /\ attempted = 0 /\ result = NoOutcome
  /\ NormIdle

Next ==
  \/ QuoteArgsEmpty
  \/ Unimplemented
  \/ TypedParameters
  \/ ResolveOk
  \/ ResolveFail
  \/ Emit
  \/ RunEmpty
  \/ CompileFail
  \/ CompileOk
  \/ BindArg
  \/ Reserve
  \/ AddArg
  \/ AddFail
  \/ AddDone

Spec == Init /\ [][Next]_vars

\* ========================================================== try_into_any

\* DB::Column values: ordinal, and the reported type
ColumnsOf(ts) == [i \in 1..Len(ts) |-> [ordinal |-> i - 1, type_info |-> ts[i]]]

\* AnyTypeInfo::try_from(type_info) succeeds
HasAnyType(type_info) == type_info.any # <<>>

\* the AnyTypeInfo it yields
AnyTypeInfo(type_info) == [kind |-> type_info.any[1]]

\* the error AnyColumn::try_from reports for a column it cannot represent
AnyColumnError(col) ==
  Message("UnrepresentableColumnType", <<col.type_info.name>>, <<col.ordinal>>)

\* AnyColumn::try_from(&column)
AnyColumn_try_from(col) ==
  IF HasAnyType(col.type_info)
    THEN Ok([ordinal |-> col.ordinal, type_info |-> AnyTypeInfo(col.type_info)])
    ELSE Err(AnyColumnError(col))

\* variant of CollectColumns that drops the columns it cannot represent
CollectColumns_SkipBad(cols) ==
  Ok(SelectSeq([i \in 1..Len(cols) |->
                  IF HasAnyType(cols[i].type_info)
                    THEN AnyColumn_try_from(cols[i]).val[1]
                    ELSE [ordinal |-> cols[i].ordinal, type_info |-> [kind |-> "skip"]]],
               LAMBDA c : c.type_info.kind # "skip"))

\* self.columns.iter().map(AnyColumn::try_from).collect::<Result<Vec<_>, _>>()
CollectColumns(cols) ==
  LET f == FirstStop({ i \in 1..Len(cols) : AnyColumn_try_from(cols[i]).kind # "Ok" })
  IN  IF f = 0
        THEN Ok([i \in 1..Len(cols) |-> AnyColumn_try_from(cols[i]).val[1]])
        ELSE AnyColumn_try_from(cols[f])

\* variant of AnyParameter that reports the position counted from one
AnyParameter_OneBased(i, type_info) ==
  IF HasAnyType(type_info)
    THEN Ok(AnyTypeInfo(type_info))
    ELSE Err(Message("Any driver does not support type {type_info} of parameter {i}",
                     <<type_info.name>>, <<i + 1>>))

\* the closure over (i, type_info) of the Typed branch
AnyParameter(i, type_info) ==
  IF HasAnyType(type_info)
    THEN Ok(AnyTypeInfo(type_info))
    ELSE Err(Message("Any driver does not support type {type_info} of parameter {i}",
                     <<type_info.name>>, <<i>>))

\* parameters.iter().enumerate().map(..).collect::<Result<Vec<_>, _>>()
CollectAnyParameters(ts) ==
  LET f == FirstStop({ k \in 1..Len(ts) : AnyParameter(k - 1, ts[k]).kind # "Ok" })
  IN  IF f = 0
        THEN Ok([k \in 1..Len(ts) |-> AnyParameter(k - 1, ts[k]).val[1]])
        ELSE AnyParameter(f - 1, ts[f])

\* Ok(Describe { columns, parameters, nullable: self.nullable,
\*               known_enum_tys: unreachable!(..) }): the field expressions
\* are evaluated before the struct exists, and the last one panics
BuildDescribe(cols, ps, nullable) ==
  Panic(Message("internal error: entered unreachable code: this function is never called by postgres",
                <<>>, <<>>))

ConvertColumnsOk ==
  /\ npc = "columns"
  /\ CollectColumns(info.columns).kind = "Ok"
  /\ columns' = CollectColumns(info.columns).val[1]
  /\ npc' = "parameters"
  /\ UNCHANGED <<info, arg_exprs, parameters, nresult>>
  /\ UNCHANGED bindVars

ConvertColumnsFail ==
  /\ npc = "columns"
  /\ CollectColumns(info.columns).kind # "Ok"
  /\ nresult' = CollectColumns(info.columns)
  /\ npc' = "done"
  /\ UNCHANGED <<info, arg_exprs, columns, parameters>>
  /\ UNCHANGED bindVars

\* Some(Either::Left(parameters)) => Some(Either::Left(..collect()?))
ConvertParametersOk ==
  /\ npc = "parameters"
  /\ info.parameters.tag = "Typed"
  /\ CollectAnyParameters(info.parameters.types).kind = "Ok"
  /\ parameters' = <<[tag |-> "Typed",
                      types |-> CollectAnyParameters(info.parameters.types).val[1],
                      count |-> 0]>>
  /\ npc' = "build"
  /\ UNCHANGED <<info, arg_exprs, columns, nresult>>
  /\ UNCHANGED bindVars

ConvertParametersFail ==
  /\ npc = "parameters"
  /\ info.parameters.tag = "Typed"
  /\ CollectAnyParameters(info.parameters.types).kind # "Ok"
  /\ nresult' = CollectAnyParameters(info.parameters.types)
  /\ npc' = "done"
  /\ UNCHANGED <<info, arg_exprs, columns, parameters>>
  /\ UNCHANGED bindVars

\* Some(Either::Right(count)) => Some(Either::Right(count)), None => None
PassParameters ==
  /\ npc = "parameters"
  /\ info.parameters.tag # "Typed"
  /\ parameters' = <<info.parameters>>
  /\ npc' = "build"
  /\ UNCHANGED <<info, arg_exprs, columns, nresult>>
  /\ UNCHANGED bindVars

Build ==
  /\ npc = "build"
  /\ nresult' = BuildDescribe(columns, parameters[1], info.nullable)
  /\ npc' = "done"
  /\ UNCHANGED <<info, arg_exprs, columns, parameters>>
  /\ UNCHANGED bindVars

NormDescriptors ==
  UNION { [columns : {ColumnsOf(ts)},
           parameters : ParameterInfos,
           nullable : [1..Len(ts) -> NullableOpts],
           known_enum_tys : {<<>>}] : ts \in SeqsUpTo(TypeInfos, MaxCols) }

NormInit ==
  /\ info \in NormDescriptors
  /\ arg_exprs = <<>>
  /\ BindIdle
  /\ npc = "columns" /\ columns = <<>> /\ parameters = <<>> /\ nresult = NoOutcome

NormNext ==
  \/ ConvertColumnsOk
  \/ ConvertColumnsFail
  \/ ConvertParametersOk
  \/ ConvertParametersFail
  \/ PassParameters
  \/ Build

NormSpec == NormInit /\ [][NormNext]_vars

\* ================================================================ claims

TypedInfo == info.parameters.tag = "Typed"
NParams == Len(info.parameters.types)
NArgs == Len(arg_exprs)
ArityMismatch == TypedInfo /\ NArgs # NParams
AfterEmit == pc \in {"compile", "bind", "add"} \/ (pc = "done" /\ tokens # NoTokens)

\* C1 as stated: with Typed parameters of length n and m # n values,
\* quote_args fails with ArgumentCountMismatch before any value is converted
\* or appended.
C1_ArityAlwaysFails ==
  (pc = "done" /\ ArityMismatch) =>
     /\ gen.kind = "Err"
     /\ gen.err[1].fmt = "ArgumentCountMismatch"
     /\ args = <<>>
     /\ attempted = 0

\* C1 amended: quote_args makes no arity check.  With m # n the only error it
\* can return is a type-resolution error; with m = 0 it returns an empty
\* default buffer and touches no value; with m > 0 it generates conversions
\* for the first min(m, n) values and reserve/add for all m names.
C1_NoArityCheck ==
  ArityMismatch =>
     /\ gen.kind = "Err" => gen.err[1].fmt \in
          { "parameter type {param} is not supported",
            "failed to parse parameter type {param}: {err}" }
     /\ (pc = "done" /\ NArgs = 0) =>
          /\ gen = Ok("tokens")
          /\ result = Ok(<<>>)
          /\ args = <<>> /\ attempted = 0 /\ reserved = <<>>
     /\ (AfterEmit /\ NArgs > 0) =>
          /\ gen = Ok("tokens")
          /\ Len(tokens.bindings) = Min(NArgs, NParams)
          /\ tokens.names = NArgs

C1_Witness ==
  /\ pc = "done" /\ TypedInfo /\ NArgs = 0 /\ NParams > 0
  /\ result = Ok(<<>>)

C1_WitnessMore ==
  /\ pc = "done" /\ TypedInfo /\ NArgs > NParams /\ NParams > 0
  /\ gen.kind = "Ok"

\* C2 as stated: with CountOnly(k) or Absent parameters, binding any value
\* sequence ends in the returned error UnsupportedParameterMode.
C2_ReturnsUnsupportedMode ==
  (pc = "done" /\ ~TypedInfo) =>
     /\ gen.kind = "Err"
     /\ gen.err[1].fmt = "UnsupportedParameterMode"

\* C2 amended: with CountOnly(k) or Absent parameters, binding a non-empty
\* value sequence aborts with the unimplemented! panic (no error is returned,
\* no code is generated, no value is touched), and binding the empty sequence
\* returns a successful empty buffer.
C2_PanicsOrEmpty ==
  (pc = "done" /\ ~TypedInfo) =>
     /\ args = <<>> /\ attempted = 0 /\ reserved = <<>>
     /\ IF NArgs = 0
          THEN gen = Ok("tokens") /\ result = Ok(<<>>)
          ELSE /\ gen = Panic(Message("only normal parameter inputs are supported safely",
                                      <<>>, <<>>))
               /\ tokens = NoTokens
               /\ result = NoOutcome

C2_Witness ==
  /\ pc = "done" /\ info.parameters.tag = "CountOnly" /\ info.parameters.count = 1
  /\ NArgs > 0
  /\ gen.kind = "Panic"

\* positions whose value Arguments::add rejects
FailingAdds == { k \in 1..Len(args) : ~args[k].enc }
FirstFailingAdd == CHOOSE k \in FailingAdds : \A j \in FailingAdds : k <= j

\* C3: when positions fail to be added, the error returned is that of the
\* lowest-index failing position, no later position is attempted, and the
\* result is an error carrying no buffer.
C3_FirstFailureWins ==
  (pc = "done" /\ reserved # <<>> /\ FailingAdds # {}) =>
     /\ result = Err(AddError(args[FirstFailingAdd]))
     /\ attempted = FirstFailingAdd
     /\ result.val = <<>>
     /\ query_args = NoBuffer

C3_Witness ==
  /\ pc = "done" /\ reserved # <<>>
  /\ Cardinality(FailingAdds) >= 2
  /\ \E j \in FailingAdds : args[j].lit # args[FirstFailingAdd].lit
  /\ result.kind = "Err"

\* a parameter with no native mapping whose name is a registered enum domain
IsEnumFallback(d, param) ==
  param_type_for_id(param) = <<>> /\ param.name \in DOMAIN d.known_enum_tys
IsTextual(v) == v.src \in {"&str", "String"}

\* C4 as stated: every parameter with no native mapping and a registered name
\* resolves to String whatever the variant list, and binding any textual
\* value to it succeeds.
C4_EnumFallbackBinds ==
  ( /\ pc = "done" /\ TypedInfo /\ NArgs = NParams /\ NArgs > 0
    /\ \A i \in 1..NParams : IsEnumFallback(info, info.parameters.types[i])
    /\ \A i \in 1..NArgs : IsTextual(arg_exprs[i]) /\ arg_exprs[i].enc ) =>
     /\ gen = Ok("tokens")
     /\ params = [i \in 1..NParams |-> "String"]
     /\ result = Ok([i \in 1..NArgs |-> Into(arg_exprs[i], "String")])

\* the position at which resolution stops (0 when every type resolves)
FirstUnresolved ==
  FirstStop({ i \in 1..NParams : ResolveParam(info, info.parameters.types[i]).kind # "Ok" })
IsUnsupported(d, param) ==
  param_type_for_id(param) = <<>> /\ param.name \notin DOMAIN d.known_enum_tys
ResolutionStopsUnsupported ==
  /\ pc = "done" /\ TypedInfo /\ NArgs > 0
  /\ FirstUnresolved > 0
  /\ IsUnsupported(info, info.parameters.types[FirstUnresolved])

\* C5 as stated: an unsupported parameter type at position i makes resolution
\* fail with an error naming the reported type and the position i.
C5_NamesTypeAndPosition ==
  ResolutionStopsUnsupported =>
     /\ gen.kind = "Err"
     /\ gen.err[1].ty = <<info.parameters.types[FirstUnresolved].name>>
     /\ gen.err[1].pos = <<FirstUnresolved - 1>>

\* C5 amended: when resolution stops at a parameter with no native mapping
\* and no registered name, quote_args returns the error "parameter type ..
\* is not supported", which names the reported type only (no position), and
\* generates no code.
C5_NamesTypeOnly ==
  ResolutionStopsUnsupported =>
     /\ gen = Err(Message("parameter type {param} is not supported",
                          <<info.parameters.types[FirstUnresolved].name>>, <<>>))
     /\ tokens = NoTokens
     /\ result = NoOutcome

C5_Witness ==
  /\ ResolutionStopsUnsupported
  /\ FirstUnresolved = 2
  /\ gen.kind = "Err"

\* the target type parameter i resolves to
Resolved(i) == ResolveParam(info, info.parameters.types[i]).val[1]

\* C9: with Typed parameters of length n that all resolve and n values that
\* each convert and append without error, the buffer holds exactly n values,
\* the one at position i being value i converted to the resolved type i.
C9_BufferInOrder ==
  ( /\ pc = "done" /\ TypedInfo /\ NArgs = NParams
    /\ FirstUnresolved = 0
    /\ \A i \in 1..NArgs :
          IntoExists(arg_exprs[i].src, Resolved(i)) /\ arg_exprs[i].enc ) =>
     /\ gen = Ok("tokens")
     /\ result = Ok([i \in 1..NArgs |-> Into(arg_exprs[i], Resolved(i))])
     /\ Len(result.val[1]) = NParams

C9_Witness ==
  /\ pc = "done" /\ TypedInfo /\ NArgs = 2 /\ NParams = 2
  /\ info.parameters.types[1].name = "int4"
  /\ info.parameters.types[2].name = "text"
  /\ result.kind = "Ok"
  /\ Len(result.val[1]) = 2

\* C10 as stated: with at least one argument the buffer is reserved exactly
\* once, before any value is converted and before any value is appended.
C10_ReserveBeforeConversion ==
  NArgs > 0 =>
     ((args # <<>> \/ attempted > 0) => Len(reserved) = 1)

\* C10 amended: with at least one argument the buffer is reserved exactly
\* once, after every value has been converted to its target type (the size
\* estimates are those of the converted values) and before any value is
\* appended; it is reserved from the argument count and the sum of the size
\* estimates.
C10_ReserveAfterConversion ==
  NArgs > 0 =>
     /\ Len(reserved) <= 1
     /\ attempted > 0 => Len(reserved) = 1
     /\ reserved # <<>> =>
          /\ Len(args) = NArgs
          /\ reserved[1] = [count |-> NArgs, bytes |-> SumHints(arg_exprs)]
     /\ (pc = "done" /\ result.kind \in {"Ok", "Err"}) => Len(reserved) = 1

C10_Witness ==
  /\ pc = "add" /\ NArgs = 2 /\ attempted = 1
  /\ Len(reserved) = 1
  /\ reserved[1].bytes > 0

\* ---- try_into_any

Representable(col) == HasAnyType(col.type_info)
AllColumnsRepresentable == \A i \in 1..Len(info.columns) : Representable(info.columns[i])
FirstBadColumn ==
  FirstStop({ i \in 1..Len(info.columns) : ~Representable(info.columns[i]) })
FirstBadParameter ==
  FirstStop({ i \in 1..NParams : ~HasAnyType(info.parameters.types[i]) })

\* C6 as stated: with representable columns and CountOnly(k) or Absent
\* parameters, try_into_any returns a normalized descriptor with the same
\* parameters and the same nullable sequence.
C6_PassThrough ==
  (npc = "done" /\ AllColumnsRepresentable /\ ~TypedInfo) =>
     /\ nresult.kind = "Ok"
     /\ nresult.val[1].parameters = info.parameters
     /\ nresult.val[1].nullable = info.nullable

\* C7: with at least one unrepresentable column, try_into_any returns no
\* descriptor but the single failure of the first such column, which names
\* its position and original type; nothing else is converted.
C7_ColumnsAllOrNothing ==
  (npc = "done" /\ ~AllColumnsRepresentable) =>
     /\ nresult.kind = "Err"
     /\ nresult.val = <<>>
     /\ nresult.err[1].fmt = "UnrepresentableColumnType"
     /\ nresult.err[1].pos = <<FirstBadColumn - 1>>
     /\ nresult.err[1].ty = <<info.columns[FirstBadColumn].type_info.name>>
     /\ columns = <<>> /\ parameters = <<>>

C7_Witness ==
  /\ npc = "done" /\ Len(info.columns) = 2
  /\ Representable(info.columns[1]) /\ ~Representable(info.columns[2])
  /\ nresult.kind = "Err"

\* C8: with representable columns and Typed parameters, the parameter types
\* are converted elementwise in positional order, and an unrepresentable
\* entry makes try_into_any fail with the error naming the position and the
\* original type of the first such entry.
C8_TypedParameters ==
  (AllColumnsRepresentable /\ TypedInfo) =>
     /\ (npc \in {"build", "done"} /\ FirstBadParameter = 0) =>
           parameters = <<[tag |-> "Typed",
                           types |-> [i \in 1..NParams |->
                                        [kind |-> info.parameters.types[i].any[1]]],
                           count |-> 0]>>
     /\ (npc = "done" /\ FirstBadParameter > 0) =>
           /\ nresult = Err(Message(
                 "Any driver does not support type {type_info} of parameter {i}",
                 <<info.parameters.types[FirstBadParameter].name>>,
                 <<FirstBadParameter - 1>>))
           /\ parameters = <<>>

C8_Witness ==
  /\ npc = "done" /\ AllColumnsRepresentable /\ TypedInfo
  /\ NParams = 2 /\ FirstBadParameter = 2
  /\ nresult.kind = "Err"

C8_WitnessConverted ==
  /\ npc = "build" /\ AllColumnsRepresentable /\ TypedInfo
  /\ NParams = 2 /\ FirstBadParameter = 0
  /\ info.parameters.types[1] # info.parameters.types[2]

====
